---- MODULE Spec2Model ----
(***************************************************************************)
(* GenMix: GeminiGenerator.generate (fan-out over the remote boundary,     *)
(* reference-image ingestion, metadata inference) and BaseGenerator.save   *)
(* (format-aware persistence of the last generation).                      *)
(*                                                                         *)
(* JavaScript runs each continuation to completion on one thread, so one   *)
(* action is the code between two suspension points (await of I/O).        *)
(* Array positions are 1-based here and 0-based in the code: request i of  *)
(* the code is subs[i+1], and the file suffix of image k is k-1.           *)
(***************************************************************************)
EXTENDS Integers, Sequences, FiniteSets, TLC

(***************************************************************************)
(* Bounds of the model.                                                    *)
(***************************************************************************)
MaxGenerateCalls == 2   \* generate calls issued in one behaviour
MaxImages == 2          \* largest numberOfImages a caller asks for

(***************************************************************************)
(* JavaScript values.  A missing object is Null; a missing number is       *)
(* Undef; a missing string is the empty one; a missing flag is FALSE.  A   *)
(* string the code takes apart is a sequence of its characters.            *)
(***************************************************************************)
Null == [null |-> TRUE]
Undef == -1

Calls == 1..MaxGenerateCalls
Prompts == {"p1", "p2"}

(***************************************************************************)
(* The file system the reference paths point into.  A file is unreadable   *)
(* (readFileSync throws), readable but not an image (sharp rejects), or an *)
(* image with the header fields sharp reports and its size on disk.        *)
(***************************************************************************)
NoRef == [kind |-> "none"]
FileRef(p) == [kind |-> "file", path |-> p]

Files ==
  [ photo |-> [ext |-> ".jpg",
               readable |-> TRUE, decodable |-> TRUE, format |-> <<"j", "p", "e", "g">>,
               width |-> 4, height |-> 4, size |-> 6,
               paletteBitDepth |-> 0, rawOk |-> TRUE, colours |-> 0],
    icon  |-> [ext |-> ".PNG",
               readable |-> TRUE, decodable |-> TRUE, format |-> <<"p", "n", "g">>,
               width |-> 2, height |-> 2, size |-> 90,
               paletteBitDepth |-> 4, rawOk |-> TRUE, colours |-> 3],
    notes |-> [ext |-> ".txt",
               readable |-> TRUE, decodable |-> FALSE, format |-> <<>>,
               width |-> 0, height |-> 0, size |-> 5,
               paletteBitDepth |-> 0, rawOk |-> FALSE, colours |-> 0],
    gone  |-> [ext |-> ".gif",
               readable |-> FALSE, decodable |-> FALSE, format |-> <<>>,
               width |-> 0, height |-> 0, size |-> 0,
               paletteBitDepth |-> 0, rawOk |-> FALSE, colours |-> 0] ]

References == {NoRef} \cup {FileRef(p) : p \in DOMAIN Files}

RECURSIVE Pow2(_)
Pow2(n) == IF n = 0 THEN 1 ELSE 2 * Pow2(n - 1)

(***************************************************************************)
(* An encoding profile (formatOptions).  Every field is always present in  *)
(* the record; a field the code leaves out holds its missing value.        *)
(***************************************************************************)
NoOptions ==
  [format |-> <<>>, width |-> Undef, height |-> Undef, quality |-> Undef,
   compressionLevel |-> Undef, effort |-> Undef, palette |-> FALSE,
   colours |-> Undef]

\* Math.pow(2, metadata.paletteBitDepth), the fallback colour count.
PaletteColours(f) == IF f.rawOk THEN f.colours ELSE Pow2(f.paletteBitDepth)

\* bytesPerPixel = size / (width * height) against 0.5, 1 and 1.5.
JpegQuality(f) ==
  LET pixelCount == f.width * f.height
  IN  IF 2 * f.size < pixelCount THEN 70
      ELSE IF f.size < pixelCount THEN 80
      ELSE 90

\* The formatOptions _extractReferenceMetadata builds for a decodable file.
ExtractReferenceMetadata(f) ==
  LET base == [NoOptions EXCEPT !.format = f.format, !.width = f.width,
                                !.height = f.height]
  IN  IF f.format \in {<<"j", "p", "e", "g">>, <<"j", "p", "g">>}
        THEN [base EXCEPT !.quality = JpegQuality(f)]
      ELSE IF f.format = <<"p", "n", "g">>
        THEN IF f.paletteBitDepth # 0
               THEN [base EXCEPT !.compressionLevel = 9, !.palette = TRUE,
                                 !.quality = 90, !.effort = 9,
                                 !.colours = PaletteColours(f)]
               ELSE [base EXCEPT !.compressionLevel = 9]
      ELSE IF f.format = <<"w", "e", "b", "p">>
        THEN [base EXCEPT !.quality = 80]
      ELSE base

(***************************************************************************)
(* _processReferenceImage.  Its input is a Buffer, a string or some other  *)
(* value.  A string it takes apart is the sequence of the pieces it is     *)
(* matched on: "data:", "image/", a subtype, ";base64,", a payload; a      *)
(* scheme and the rest of a URL; a file's name and its extension.  A MIME  *)
(* type is the pair of its type and subtype pieces.                        *)
(***************************************************************************)
BufferInput(b) == [type |-> "buffer", bytes |-> b, str |-> <<>>]
StringInput(s) == [type |-> "string", bytes |-> "", str |-> s]
NumberInput == [type |-> "number", bytes |-> "", str |-> <<>>]

\* let mimeType = 'image/png'
DefaultMimeType == <<"image/", "png">>

\* toString('base64') of bytes
Base64(b) == <<"base64", b>>

\* String.prototype.startsWith
StartsWith(s, prefix) ==
  Len(s) >= Len(prefix) /\ SubSeq(s, 1, Len(prefix)) = prefix

\* The pieces that begin with a semicolon.
SemicolonPieces == {";base64,", ";charset=utf-8"}

\* Where [^;]+ has to stop: the first piece with a semicolon, 0 for none.
FirstSemicolon(s) ==
  LET at == {k \in 1..Len(s) : s[k] \in SemicolonPieces}
  IN  IF at = {} THEN 0 ELSE CHOOSE k \in at : \A j \in at : k <= j

\* imageInput.match(/^data:(image\/[^;]+);base64,(.+)$/) on a string that
\* starts with data:image/ ; the dot of (.+) matches no line break.
DataUriMatch(s) ==
  LET k == FirstSemicolon(s)
  IN  IF /\ k > 3
         /\ s[k] = ";base64,"
         /\ k < Len(s)
         /\ \A j \in (k + 1)..Len(s) : s[j] # "\n"
        THEN [matched |-> TRUE, mimeType |-> SubSeq(s, 2, k - 1),
              data |-> SubSeq(s, k + 1, Len(s))]
        ELSE [matched |-> FALSE, mimeType |-> <<>>, data |-> <<>>]

\* path.extname(imageInput)
DotPieces == {".jpg", ".jpeg", ".JPG", ".png", ".PNG", ".gif", ".webp", ".txt"}
ExtName(s) == IF Len(s) >= 2 /\ s[Len(s)] \in DotPieces THEN s[Len(s)] ELSE ""

\* .toLowerCase() of an extension
LowerExt(e) == CASE e = ".PNG" -> ".png" [] e = ".JPG" -> ".jpg" [] OTHER -> e

\* mimeTypes[ext] || 'image/png'
MimeTypeOfExt(e) ==
  CASE e = ".png" -> <<"image/", "png">>
    [] e = ".jpg" -> <<"image/", "jpeg">>
    [] e = ".jpeg" -> <<"image/", "jpeg">>
    [] e = ".gif" -> <<"image/", "gif">>
    [] e = ".webp" -> <<"image/", "webp">>
    [] OTHER -> DefaultMimeType

\* The file a path names; a path that names none reads like an unreadable file.
FileAt(s) ==
  LET named == {n \in DOMAIN Files : s = <<n, Files[n].ext>>}
  IN  IF named = {} THEN Files.gone ELSE Files[CHOOSE n \in named : TRUE]

SourceKindPathFirst(imageInput) ==
  IF imageInput.type = "buffer" THEN "buffer"
  ELSE IF imageInput.type # "string" THEN "other"
  ELSE IF StartsWith(imageInput.str, <<"http://">>)
            \/ StartsWith(imageInput.str, <<"https://">>) THEN "url"
  ELSE "file"

\* The branch _processReferenceImage takes.
SourceKind(imageInput) ==
  IF imageInput.type = "buffer" THEN "buffer"
  ELSE IF imageInput.type # "string" THEN "other"
  ELSE IF StartsWith(imageInput.str, <<"data:", "image/">>) THEN "datauri"
  ELSE IF StartsWith(imageInput.str, <<"http://">>)
            \/ StartsWith(imageInput.str, <<"https://">>) THEN "url"
  ELSE "file"

\* One resolution: where it is, what it has so far, and what it has asked of
\* the network (axios.get) and of the file system (readFileSync).
IdleResolve ==
  [pc |-> "idle", input |-> NumberInput, mimeType |-> <<>>, data |-> <<>>,
   error |-> "", fetches |-> 0, reads |-> 0]

\* _processReferenceImage up to its first await, or to its end if it has none.
ProcessReferenceImage(r) ==
  LET kind == SourceKind(r.input)
      s == r.input.str
  IN  IF kind = "buffer"
        THEN [r EXCEPT !.pc = "resolved", !.mimeType = DefaultMimeType,
                       !.data = Base64(r.input.bytes)]
      ELSE IF kind = "datauri"
        THEN IF DataUriMatch(s).matched
               THEN [r EXCEPT !.pc = "resolved",
                              !.mimeType = DataUriMatch(s).mimeType,
                              !.data = DataUriMatch(s).data]
               ELSE [r EXCEPT !.pc = "failed", !.error = "format"]
      ELSE IF kind = "url"
        THEN [r EXCEPT !.pc = "get", !.fetches = @ + 1]
      ELSE IF kind = "file"
        THEN IF FileAt(s).readable
               THEN [r EXCEPT !.pc = "meta", !.reads = @ + 1,
                              !.mimeType = MimeTypeOfExt(LowerExt(ExtName(s))),
                              !.data = Base64(s[1])]
               ELSE [r EXCEPT !.pc = "failed", !.error = "read",
                              !.reads = @ + 1]
      ELSE [r EXCEPT !.pc = "failed", !.error = "type"]

\* mimeType = response.headers['content-type'] || 'image/png'
DownloadedMimeType(contentType) ==
  IF contentType # <<>> THEN contentType ELSE DefaultMimeType

(***************************************************************************)
(* The remote boundary's response envelope: one chunk or an array of       *)
(* chunks; a chunk may lack candidates, a candidate its content or parts.  *)
(* A text is a sequence of characters, a missing one the empty sequence.   *)
(***************************************************************************)
NoInline == [hasMimeType |-> FALSE, mimeType |-> "", data |-> ""]
TextPart(t) == [text |-> t, inlineData |-> NoInline]
InlinePart(m, d) ==
  [text |-> <<>>, inlineData |-> [hasMimeType |-> TRUE, mimeType |-> m, data |-> d]]

\* A part of some other kind: neither text nor inlineData.
OtherPart == [text |-> <<>>, inlineData |-> NoInline]

\* A part whose inlineData has data and no mimeType.
UntypedInlinePart(d) ==
  [text |-> <<>>, inlineData |-> [hasMimeType |-> FALSE, mimeType |-> "", data |-> d]]

\* A part with both a text and an inlineData.
MixedPart(t, m, d) ==
  [text |-> t, inlineData |-> [hasMimeType |-> TRUE, mimeType |-> m, data |-> d]]

Candidate(parts) == [hasParts |-> TRUE, parts |-> parts]
NoContent == [hasParts |-> FALSE, parts |-> <<>>]
Chunk(cands) == [hasCandidates |-> TRUE, candidates |-> cands]
NoCandidates == [hasCandidates |-> FALSE, candidates |-> <<>>]

Envelope(isArray, chunks) == [isArray |-> isArray, chunks |-> chunks]

Envelopes ==
  { Envelope(FALSE, <<Chunk(<<Candidate(<<InlinePart("image/png", "A")>>)>>)>>),
    Envelope(TRUE, <<Chunk(<<Candidate(<<TextPart(<<"t">>)>>)>>),
                     Chunk(<<NoContent,
                             Candidate(<<InlinePart("image/jpeg", "B")>>)>>)>>),
    Envelope(TRUE, <<NoCandidates, Chunk(<<Candidate(<<TextPart(<<"u">>),
                             InlinePart("text/plain", "X")>>)>>)>>),
    Envelope(FALSE, <<Chunk(<<Candidate(<<InlinePart("image/png", "A"),
                                          UntypedInlinePart("Z")>>)>>)>>) }

\* `data:${mimeType};base64,${data}`
DataUri(m, d) == <<"data:", m, ";base64,", d>>

IsImageMime(m) == m \in {"image/png", "image/jpeg", "image/webp", "image/gif",
                         "image/svg+xml"}

PartImages(p) ==
  IF p.inlineData # NoInline /\ IsImageMime(p.inlineData.mimeType)
    THEN <<DataUri(p.inlineData.mimeType, p.inlineData.data)>>
    ELSE <<>>

RECURSIVE PartsImages(_)
PartsImages(ps) ==
  IF ps = <<>> THEN <<>> ELSE PartImages(Head(ps)) \o PartsImages(Tail(ps))

RECURSIVE PartsText(_)
PartsText(ps) ==
  IF ps = <<>> THEN <<>> ELSE Head(ps).text \o PartsText(Tail(ps))

RECURSIVE CandidatesImages(_)
CandidatesImages(cs) ==
  IF cs = <<>> THEN <<>>
  ELSE (IF Head(cs).hasParts THEN PartsImages(Head(cs).parts) ELSE <<>>)
       \o CandidatesImages(Tail(cs))

RECURSIVE CandidatesText(_)
CandidatesText(cs) ==
  IF cs = <<>> THEN <<>>
  ELSE (IF Head(cs).hasParts THEN PartsText(Head(cs).parts) ELSE <<>>)
       \o CandidatesText(Tail(cs))

RECURSIVE ChunksImages(_)
ChunksImages(ks) ==
  IF ks = <<>> THEN <<>>
  ELSE (IF Head(ks).hasCandidates THEN CandidatesImages(Head(ks).candidates)
        ELSE <<>>) \o ChunksImages(Tail(ks))

RECURSIVE ChunksText(_)
ChunksText(ks) ==
  IF ks = <<>> THEN <<>>
  ELSE (IF Head(ks).hasCandidates THEN CandidatesText(Head(ks).candidates)
        ELSE <<>>) \o ChunksText(Tail(ks))

\* part.inlineData.mimeType.startsWith(...) on an inlineData without mimeType
\* raises a TypeError.
PartThrows(p) == p.inlineData # NoInline /\ ~p.inlineData.hasMimeType

ResponseThrows(data) ==
  \E k \in 1..Len(data.chunks) :
    /\ data.chunks[k].hasCandidates
    /\ \E c \in 1..Len(data.chunks[k].candidates) :
         /\ data.chunks[k].candidates[c].hasParts
         /\ \E p \in 1..Len(data.chunks[k].candidates[c].parts) :
              PartThrows(data.chunks[k].candidates[c].parts[p])

\* processResponse: the images and the text of an envelope (raw is left out),
\* or the exception it raises.
processResponse(data) ==
  IF ResponseThrows(data)
    THEN [threw |-> TRUE, images |-> <<>>, text |-> <<>>]
    ELSE [threw |-> FALSE,
          images |-> ChunksImages(data.chunks), text |-> ChunksText(data.chunks)]


(***************************************************************************)
(* generateMultiple: Promise.all over the sub-requests and the merge.      *)
(***************************************************************************)
EmptyResult == [images |-> <<>>, text |-> <<>>]

\* String.prototype.includes on character sequences.
Includes(s, t) ==
  \E k \in 0..(Len(s) - Len(t)) : SubSeq(s, k + 1, k + Len(t)) = t

\* The array Promise.all resolves with: one slot per promise, by position.
PromiseAllCompletionOrder(subs, order) ==
  [k \in 1..Len(subs) |-> subs[order[k]].res]

PromiseAllResults(subs, order) ==
  [i \in 1..Len(subs) |-> subs[i].res]

\* Promise.all settles: rejected at the first rejection, fulfilled when all are.
PromiseAllTolerant(subs) ==
  IF \A i \in 1..Len(subs) : subs[i].pc \in {"ok", "err"} THEN "fulfilled"
  ELSE "pending"

PromiseAllState(subs) ==
  IF \E i \in 1..Len(subs) : subs[i].pc = "err" THEN "rejected"
  ELSE IF \A i \in 1..Len(subs) : subs[i].pc = "ok" THEN "fulfilled"
  ELSE "pending"

MergeOneNoDedup(merged, res) ==
  [images |-> merged.images \o res.images,
   text |-> IF res.text # <<>> THEN merged.text \o res.text \o <<"\n">>
                              ELSE merged.text]

\* One turn of the merge loop.
MergeOne(merged, res) ==
  [images |-> merged.images \o res.images,
   text |-> IF res.text # <<>> /\ ~Includes(merged.text, res.text)
              THEN merged.text \o res.text \o <<"\n">>
              ELSE merged.text]

RECURSIVE MergeFrom(_, _)
MergeFrom(merged, results) ==
  IF results = <<>> THEN merged
  ELSE MergeFrom(MergeOne(merged, Head(results)), Tail(results))

MergeResults(results) == MergeFrom(EmptyResult, results)

\* const numberOfImages = options.numberOfImages || 1  (0 stands for absent)
NumberOfImages(n) == IF n = 0 THEN 1 ELSE n

\* options.referenceImage of a call whose reference is a file path, resolved
\* as far as _processReferenceImage gets before its await.
ResolvedReference(ref) ==
  ProcessReferenceImage(
    [IdleResolve EXCEPT !.pc = "start",
                        !.input = StringInput(<<ref.path, Files[ref.path].ext>>)])

\* The body handed to axios.post: the parts (the reference first, when there
\* is one, then the prompt) and generationConfig.candidateCount.
RequestBody(prompt, ref) ==
  [inlineData |-> IF ref.kind = "none" THEN <<>>
                  ELSE <<[mimeType |-> ResolvedReference(ref).mimeType,
                          data |-> ResolvedReference(ref).data]>>,
   text |-> prompt,
   candidateCount |-> 1]

\* How far a sub-request runs before its first suspension.  posted tells
\* whether axios.post has been called for it and sent lists the bodies it was
\* called with; reads counts the readFileSync calls made for it and writes
\* the assignments to this.referenceMetadata.
InitialSub(prompt, ref) ==
  IF ref.kind = "none"
    THEN [pc |-> "post", posted |-> TRUE, res |-> EmptyResult,
          sent |-> <<RequestBody(prompt, ref)>>, reads |-> 0, writes |-> 0]
    ELSE [pc |-> IF ResolvedReference(ref).pc = "meta" THEN "meta" ELSE "err",
          posted |-> FALSE, res |-> EmptyResult,
          sent |-> <<>>, reads |-> ResolvedReference(ref).reads, writes |-> 0]

\* What generate awaits: Promise.all when fanned out, else the one request.
AwaitedState(count, subs) ==
  IF count > 1 THEN PromiseAllState(subs)
  ELSE IF subs[1].pc = "err" THEN "rejected"
  ELSE IF subs[1].pc = "ok" THEN "fulfilled"
  ELSE "pending"

AwaitedResult(count, subs, order) ==
  IF count > 1 THEN MergeResults(PromiseAllResults(subs, order))
  ELSE subs[1].res

\* this.lastGeneration = { prompt, images, text, raw }
KeepFirstGeneration(slot, prompt, result) ==
  IF slot = Null
    THEN [prompt |-> prompt, images |-> result.images, text |-> result.text]
    ELSE slot

StoreImagesOnly(slot, prompt, result) ==
  IF slot = Null
    THEN [prompt |-> prompt, images |-> result.images, text |-> result.text]
    ELSE [slot EXCEPT !.images = result.images, !.text = result.text]

StoreGeneration(slot, prompt, result) ==
  [prompt |-> prompt, images |-> result.images, text |-> result.text]

(***************************************************************************)
(* save: extension, file name, and the options handed to the encoder.      *)
(***************************************************************************)
Lower(ch) ==
  CASE ch = "B" -> "b" [] ch = "E" -> "e" [] ch = "G" -> "g" [] ch = "J" -> "j"
    [] ch = "M" -> "m" [] ch = "N" -> "n" [] ch = "P" -> "p" [] OTHER -> ch

\* extension.toLowerCase()
ToLowerCase(s) == [k \in 1..Len(s) |-> Lower(s[k])]

\* .replace(/^\./, '')
StripLeadingDot(s) == IF s # <<>> /\ Head(s) = "." THEN Tail(s) ELSE s

\* if (formatOptions && formatOptions.format) extension = formatOptions.format
EffectiveExtension(extension, formatOptions) ==
  IF formatOptions # Null /\ formatOptions.format # <<>>
    THEN formatOptions.format
    ELSE extension

NormalizeExtension(extension) == StripLeadingDot(ToLowerCase(extension))

supportedFormats ==
  { <<"j", "p", "g">>, <<"j", "p", "e", "g">>, <<"p", "n", "g">>,
    <<"w", "e", "b", "p">>, <<"a", "v", "i", "f">>, <<"t", "i", "f", "f">>,
    <<"t", "i", "f">> }

\* extension === 'jpeg' ? 'jpg' : extension
FileExtension(extension) ==
  IF extension = <<"j", "p", "e", "g">> THEN <<"j", "p", "g">> ELSE extension

\* The hash-based name: hash-factory over prompt + '_' + index, salted by time.
GenerateHash(prompt, index, salt) == <<"#", prompt, "_", ToString(index), salt>>

AlwaysIndexed(filename, count, index, prompt, salt, ext) ==
  filename \o <<"_", ToString(index)>> \o <<".">> \o ext

\* The name of image number index (0-based) in a save of count images.
FileName(filename, count, index, prompt, salt, ext) ==
  IF filename # <<>>
    THEN IF count > 1
           THEN filename \o <<"_", ToString(index)>> \o <<".">> \o ext
           ELSE filename \o <<".">> \o ext
    ELSE GenerateHash(prompt, index, salt) \o <<".">> \o ext

\* path.join(directory, fileName)
PathJoin(directory, fileName) ==
  IF directory = "." THEN <<fileName>> ELSE <<directory, fileName>>

\* if (!fs.existsSync(directory)) fs.mkdirSync(directory, {recursive: true})
EnsureDirectory(directory) == directory # "denied"

\* imgData.replace(/^data:image\/\w+;base64,/, "") and the base64 decoding
IsWordImageMime(m) ==
  m \in {"image/png", "image/jpeg", "image/webp", "image/gif"}

DecodeImage(imgData) ==
  IF Len(imgData) = 4 /\ imgData[1] = "data:" /\ IsWordImageMime(imgData[2])
       /\ imgData[3] = ";base64,"
    THEN <<imgData[4]>>
    ELSE imgData

NoSharpOptions ==
  [quality |-> Undef, compressionLevel |-> Undef, effort |-> Undef,
   palette |-> FALSE, dither |-> Undef, colours |-> Undef]

Truthy(n) == n # Undef /\ n # 0

\* sharpFormatOptions, built from the profile the caller handed to save.
SharpFormatOptions(sharpFormat, formatOptions) ==
  IF formatOptions = Null THEN NoSharpOptions
  ELSE IF sharpFormat = <<"j", "p", "g">> /\ Truthy(formatOptions.quality)
    THEN [NoSharpOptions EXCEPT !.quality = formatOptions.quality]
  ELSE IF sharpFormat = <<"p", "n", "g">>
    THEN [quality |-> formatOptions.quality,
          compressionLevel |-> formatOptions.compressionLevel,
          effort |-> formatOptions.effort,
          palette |-> formatOptions.palette,
          dither |-> IF formatOptions.palette THEN 1 ELSE Undef,
          colours |-> IF Truthy(formatOptions.colours)
                        THEN formatOptions.colours ELSE Undef]
  ELSE IF sharpFormat = <<"w", "e", "b", "p">> /\ Truthy(formatOptions.quality)
    THEN [NoSharpOptions EXCEPT !.quality = formatOptions.quality]
  ELSE NoSharpOptions

\* The resize applied before encoding: <<width, height>>, or none.
Resize(formatOptions) ==
  IF formatOptions # Null /\ Truthy(formatOptions.width)
       /\ Truthy(formatOptions.height)
    THEN <<formatOptions.width, formatOptions.height>>
    ELSE <<>>

(***************************************************************************)
(* State.                                                                  *)
(***************************************************************************)
VARIABLES
  lastGeneration,     \* this.lastGeneration
  referenceMetadata,  \* this.referenceMetadata
  calls,              \* the generate calls: arguments, sub-requests, outcome
  finished,           \* the generate calls in the order they settled
  returned,           \* what the latest fulfilled generate returned to its caller
  sv,                 \* the save call: arguments, loop position, files written
  rr,                 \* a call of _processReferenceImage on its own
  rp,                 \* a call of processResponse on its own
  mr                  \* the merge loop of generateMultiple on its own

vars ==
  <<lastGeneration, referenceMetadata, calls, finished, returned, sv, rr, rp, mr>>

\* The generator's calls, and the three functions followed on their own.
generator == <<lastGeneration, calls, finished, returned, sv>>
alone == <<rr, rp, mr>>

\* before is the slot as the call found it.
IdleCall ==
  [pc |-> "idle", prompt |-> "", count |-> 0, ref |-> NoRef, subs |-> <<>>,
   order |-> <<>>, ret |-> Null, during |-> {}, before |-> Null]

IdleParse ==
  [pc |-> "idle", data |-> Envelope(FALSE, <<>>), out |-> processResponse(Envelope(FALSE, <<>>))]

IdleMerge == [pc |-> "idle", results |-> <<>>, out |-> EmptyResult]

IdleSave ==
  [pc |-> "idle", images |-> <<>>, prompt |-> "", directory |-> "",
   filename |-> <<>>, requested |-> <<>>, extension |-> <<>>,
   formatOptions |-> Null,
   ensured |-> FALSE, sharpFormat |-> <<>>, index |-> 0, fileName |-> <<>>,
   savedPaths |-> <<>>, written |-> <<>>, ret |-> Null, error |-> ""]

Pending == {c \in Calls : calls[c].pc = "pending"}

\* A call with a sub-request still in flight.
InFlight(call) ==
  \E i \in 1..Len(call.subs) : call.subs[i].pc \in {"meta", "post"}

\* A call that is over: settled, and none of its requests in flight.
Over(call) ==
  call.pc \in {"resolved", "rejected"} /\ call.subs # <<>> /\ ~InFlight(call)

\* The continuations of a settled promise run before the next I/O event is
\* handled: nothing else happens between the end of a call and Returned.
Quiet == \A c \in Calls : ~Over(calls[c])

Init ==
  /\ lastGeneration = Null
  /\ referenceMetadata = Null
  /\ calls = [c \in Calls |-> IdleCall]
  /\ finished = <<>>
  /\ returned = Null
  /\ sv = IdleSave
  /\ rr = IdleResolve
  /\ rp = IdleParse
  /\ mr = IdleMerge

(***************************************************************************)
(* generate                                                                *)
(***************************************************************************)
StoreWhateverCame(slot, state, prompt, result) ==
  StoreGeneration(slot, prompt, result)

\* The slot after generate's await has settled: the assignment is reached
\* only when the await did not throw.
SettledGeneration(slot, state, prompt, result) ==
  IF state = "fulfilled" THEN StoreGeneration(slot, prompt, result) ELSE slot

\* The continuation of generate after its await, run when what it awaits settles.
Settle(cs, c, call) ==
  LET state == AwaitedState(call.count, call.subs)
      result == AwaitedResult(call.count, call.subs, call.order)
  IN  IF call.pc # "pending" \/ state = "pending"
        THEN /\ calls' = [cs EXCEPT ![c] = call]
             /\ UNCHANGED <<lastGeneration, finished, returned>>
      ELSE IF state = "fulfilled"
        THEN /\ calls' = [cs EXCEPT ![c] =
                            [call EXCEPT !.pc = "resolved", !.ret = result]]
             /\ lastGeneration' =
                  SettledGeneration(lastGeneration, state, call.prompt, result)
             /\ returned' = [prompt |-> call.prompt, images |-> result.images,
                             text |-> result.text]
             /\ finished' = Append(finished, c)
      ELSE /\ calls' = [cs EXCEPT ![c] = [call EXCEPT !.pc = "rejected"]]
           /\ lastGeneration' =
                SettledGeneration(lastGeneration, state, call.prompt, result)
           /\ finished' = Append(finished, c)
           /\ UNCHANGED returned

\* generate(prompt, {numberOfImages: n, referenceImage: ref}) up to its await.
Generate(c, prompt, n, ref) ==
  /\ Quiet
  /\ calls[c].pc = "idle"
  /\ \A d \in Calls : d < c => calls[d].pc # "idle"
  /\ sv.pc # "encoding"
  /\ LET count == NumberOfImages(n)
     IN  Settle(calls, c,
                [IdleCall EXCEPT
                   !.pc = "pending", !.prompt = prompt, !.count = count,
                   !.ref = ref,
                   !.subs = [i \in 1..count |-> InitialSub(prompt, ref)],
                   !.order = IF InitialSub(prompt, ref).pc = "err"
                               THEN [i \in 1..count |-> i] ELSE <<>>,
                   !.during = Pending,
                   !.before = lastGeneration])
  /\ sv' = IdleSave
  /\ UNCHANGED <<referenceMetadata, alone>>

\* _extractReferenceMetadata after its awaits, then the request is posted.
MetadataDone(c, i) ==
  /\ Quiet
  /\ i \in 1..Len(calls[c].subs)
  /\ calls[c].subs[i].pc = "meta"
  /\ LET f == Files[calls[c].ref.path]
     IN  referenceMetadata' = IF f.decodable THEN ExtractReferenceMetadata(f)
                              ELSE referenceMetadata
  /\ calls' = [calls EXCEPT
                 ![c].subs[i].pc = "post",
                 ![c].subs[i].posted = TRUE,
                 ![c].subs[i].sent =
                    Append(@, RequestBody(calls[c].prompt, calls[c].ref)),
                 ![c].subs[i].writes =
                    IF Files[calls[c].ref.path].decodable THEN @ + 1 ELSE @]
  /\ UNCHANGED <<lastGeneration, finished, returned, sv, alone>>

\* The call is over: its caller has the outcome and its last request has
\* ended.  Its record, kept so far for the properties to read, is dropped but
\* for the outcome and the calls it overlapped.
Returned(c) ==
  /\ Over(calls[c])
  /\ calls' = [calls EXCEPT ![c] = [IdleCall EXCEPT !.pc = calls[c].pc,
                                                    !.during = calls[c].during]]
  /\ UNCHANGED <<lastGeneration, referenceMetadata, finished, returned, sv, alone>>

\* axios.post resolves with an envelope; an exception of processResponse is
\* caught like a rejection of the post.
RequestDone(c, i, data) ==
  /\ Quiet
  /\ i \in 1..Len(calls[c].subs)
  /\ calls[c].subs[i].pc = "post"
  /\ Settle(calls, c,
            [calls[c] EXCEPT
               !.subs[i].pc = IF processResponse(data).threw THEN "err" ELSE "ok",
               !.subs[i].res = [images |-> processResponse(data).images,
                                text |-> processResponse(data).text],
               !.order = Append(@, i)])
  /\ UNCHANGED <<referenceMetadata, sv, alone>>

\* axios.post rejects.
RequestFailed(c, i) ==
  /\ Quiet
  /\ i \in 1..Len(calls[c].subs)
  /\ calls[c].subs[i].pc = "post"
  /\ Settle(calls, c,
            [calls[c] EXCEPT !.subs[i].pc = "err", !.order = Append(@, i)])
  /\ UNCHANGED <<referenceMetadata, sv, alone>>

(***************************************************************************)
(* save                                                                    *)
(***************************************************************************)
\* "out" is there or can be made; "denied" is not there and cannot be made.
Directories == {"out", "denied"}
Filenames == {<<>>, <<"c", "a", "t">>}
Extensions ==
  { <<"j", "p", "g">>, <<"j", "p", "e", "g">>, <<".", "P", "N", "G">>,
    <<"b", "m", "p">> }
Salts == {"t0", "t1"}

\* The explicit profiles a caller passes: none, a bare quality, or what
\* getReferenceMetadata() returns.
Quality60 == [NoOptions EXCEPT !.quality = 60]
FormatOptions == {Null, Quality60, referenceMetadata}

\* One turn of the loop up to its await: name the file and start the encoder.
StartImage(s, index, salt) ==
  [s EXCEPT !.index = index,
            !.fileName = FileName(s.filename, Len(s.images), index - 1,
                                  s.prompt, salt, FileExtension(s.extension))]

\* The file the encoder writes for the image the loop is at.
WrittenFile(s) ==
  [path |-> PathJoin(s.directory, s.fileName),
   data |-> DecodeImage(s.images[s.index]),
   format |-> s.sharpFormat,
   options |-> SharpFormatOptions(s.sharpFormat, s.formatOptions),
   resize |-> Resize(s.formatOptions)]

\* catch (error) { console.error(...); throw error; }
EncodeFailedRollback(s) ==
  [s EXCEPT !.pc = "failed", !.error = "codec", !.written = <<>>]

EncodeFailed(s) == [s EXCEPT !.pc = "failed", !.error = "codec"]

\* this.lastGeneration?.images and this.lastGeneration?.prompt
TargetImages(slot) == IF slot = Null THEN <<>> ELSE slot.images
TargetPrompt(slot) == IF slot = Null THEN "" ELSE slot.prompt

ValidateFirst(slot, directory, extension) ==
  IF extension \notin supportedFormats THEN "unsupported"
  ELSE IF TargetImages(slot) = <<>> THEN "empty"
  ELSE IF ~EnsureDirectory(directory) THEN "mkdir"
  ELSE "encode"

SkipValidation(slot, directory, extension) ==
  IF TargetImages(slot) = <<>> THEN "empty"
  ELSE IF ~EnsureDirectory(directory) THEN "mkdir"
  ELSE "encode"

\* The way save takes before its loop: nothing to save, no directory, a bad
\* extension, or on to the loop.
SaveEntry(slot, directory, extension) ==
  IF TargetImages(slot) = <<>> THEN "empty"
  ELSE IF ~EnsureDirectory(directory) THEN "mkdir"
  ELSE IF extension \notin supportedFormats THEN "unsupported"
  ELSE "encode"

\* save({directory, filename, extension, formatOptions}) up to its first await,
\* called when no generate call is under way.  save changes nothing that a
\* later save reads, so one call of it is followed after each generation.
Save(directory, filename, extension) ==
  /\ Quiet
  /\ sv.pc = "idle"
  /\ \A c \in Calls : calls[c].pc # "pending" /\ ~InFlight(calls[c])
  /\ \E formatOptions \in FormatOptions :
     \E salt \in (IF filename = <<>> THEN Salts ELSE {"t0"}) :
     LET ext == NormalizeExtension(EffectiveExtension(extension, formatOptions))
         entry == SaveEntry(lastGeneration, directory, ext)
         args == [IdleSave EXCEPT !.directory = directory,
                                  !.filename = filename,
                                  !.requested = extension,
                                  !.extension = ext,
                                  !.formatOptions = formatOptions]
     IN  sv' = IF entry = "empty"
                 THEN [args EXCEPT !.pc = "done", !.ret = <<>>]
               ELSE IF entry \in {"mkdir", "unsupported"}
                 THEN [args EXCEPT !.pc = "failed", !.error = entry,
                                   !.images = TargetImages(lastGeneration),
                                   !.prompt = TargetPrompt(lastGeneration),
                                   !.ensured = (entry # "mkdir")]
               ELSE StartImage([args EXCEPT
                                  !.pc = "encoding",
                                  !.images = TargetImages(lastGeneration),
                                  !.prompt = TargetPrompt(lastGeneration),
                                  !.ensured = TRUE,
                                  !.sharpFormat = FileExtension(ext)],
                               1, salt)
  /\ UNCHANGED <<lastGeneration, referenceMetadata, calls, finished, returned, alone>>

\* toFile resolves: the file is on disk; the loop goes on or save returns.
ImageSaved(salt) ==
  /\ sv.pc = "encoding"
  /\ LET s == [sv EXCEPT !.written = Append(@, WrittenFile(sv)),
                         !.savedPaths = Append(@, PathJoin(sv.directory,
                                                           sv.fileName))]
     IN  sv' = IF sv.index < Len(sv.images)
                 THEN StartImage(s, sv.index + 1, salt)
                 ELSE [s EXCEPT !.pc = "done", !.ret = s.savedPaths]
  /\ UNCHANGED <<lastGeneration, referenceMetadata, calls, finished, returned, alone>>

\* The encoder or the write rejects.
ImageFailed ==
  /\ sv.pc = "encoding"
  /\ sv' = EncodeFailed(sv)
  /\ UNCHANGED <<lastGeneration, referenceMetadata, calls, finished, returned, alone>>

Next ==
  \/ \E c \in Calls, prompt \in Prompts, n \in 0..MaxImages, ref \in References :
       Generate(c, prompt, n, ref)
  \/ \E c \in Calls, i \in 1..MaxImages : MetadataDone(c, i)
  \/ \E c \in Calls, i \in 1..MaxImages, data \in Envelopes : RequestDone(c, i, data)
  \/ \E c \in Calls, i \in 1..MaxImages : RequestFailed(c, i)
  \/ \E c \in Calls : Returned(c)
  \/ \E directory \in Directories, filename \in Filenames,
        extension \in Extensions :
       Save(directory, filename, extension)
  \/ \E salt \in Salts : ImageSaved(salt)
  \/ ImageFailed

Spec == Init /\ [][Next]_vars

(***************************************************************************)
(* _processReferenceImage on its own, over the kinds of input it tells     *)
(* apart.                                                                  *)
(***************************************************************************)
Subtypes == {<<"png">>, <<"jpeg">>, <<"bmp">>, <<"svg+xml">>, <<>>}
Markers == {<<";base64,">>, <<";charset=utf-8", ";base64,">>, <<>>}
Payloads == {<<"QUJD">>, <<"QU", "\n", "JD">>, <<>>}

DataUriInputs ==
  {StringInput(<<"data:", "image/">> \o sub \o mark \o pay) :
     sub \in Subtypes, mark \in Markers, pay \in Payloads}

PathInputs ==
  {StringInput(<<n, Files[n].ext>>) : n \in DOMAIN Files}
    \cup {StringInput(<<"photo">>), StringInput(<<>>),
          StringInput(<<"ftp://", "host/d", ".webp">>),
          StringInput(<<"HTTP://", "host/c">>),
          StringInput(<<"data:", "text/", "plain", ";base64,", "QUJD">>)}

UrlInputs ==
  {StringInput(<<"http://", "host/a.png">>), StringInput(<<"https://", "host/b">>)}

ReferenceInputs ==
  {BufferInput("bytes"), BufferInput(""), NumberInput}
    \cup DataUriInputs \cup PathInputs \cup UrlInputs

\* response.headers['content-type'], the empty one for a missing header
ContentTypes ==
  {<<"image/", "jpeg">>, <<"image/", "avif">>, <<"text/", "html">>, <<>>}

InitReference ==
  /\ lastGeneration = Null
  /\ referenceMetadata = Null
  /\ calls = [c \in Calls |-> IdleCall]
  /\ finished = <<>>
  /\ returned = Null
  /\ sv = IdleSave
  /\ rr \in {[IdleResolve EXCEPT !.pc = "start", !.input = x] :
               x \in ReferenceInputs}
  /\ rp = IdleParse
  /\ mr = IdleMerge

\* _processReferenceImage(imageInput) up to its first await.
ProcessReference ==
  /\ rr.pc = "start"
  /\ rr' = ProcessReferenceImage(rr)
  /\ UNCHANGED <<generator, referenceMetadata, rp, mr>>

\* axios.get resolves.
DownloadDone(contentType) ==
  /\ rr.pc = "get"
  /\ rr' = [rr EXCEPT !.pc = "resolved",
                      !.mimeType = DownloadedMimeType(contentType),
                      !.data = Base64("body")]
  /\ UNCHANGED <<generator, referenceMetadata, rp, mr>>

\* axios.get rejects.
DownloadFailed ==
  /\ rr.pc = "get"
  /\ rr' = [rr EXCEPT !.pc = "failed", !.error = "download"]
  /\ UNCHANGED <<generator, referenceMetadata, rp, mr>>

\* _extractReferenceMetadata returns, and with it _processReferenceImage.
ReferenceMetadataDone ==
  /\ rr.pc = "meta"
  /\ referenceMetadata' =
       IF FileAt(rr.input.str).decodable
         THEN ExtractReferenceMetadata(FileAt(rr.input.str))
         ELSE referenceMetadata
  /\ rr' = [rr EXCEPT !.pc = "resolved"]
  /\ UNCHANGED <<generator, rp, mr>>

NextReference ==
  \/ ProcessReference
  \/ \E contentType \in ContentTypes : DownloadDone(contentType)
  \/ DownloadFailed
  \/ ReferenceMetadataDone

SpecReference == InitReference /\ [][NextReference]_vars

(***************************************************************************)
(* processResponse on its own, over envelopes of every shape.              *)
(***************************************************************************)
MaxParts == 2   \* parts in one candidate

Parts ==
  { TextPart(<<"t">>), TextPart(<<"u">>), InlinePart("image/png", "A"),
    InlinePart("image/jpeg", "B"), InlinePart("text/plain", "X"), OtherPart,
    UntypedInlinePart("Z"), MixedPart(<<"v">>, "image/png", "C") }

PartLists == UNION {[1..n -> Parts] : n \in 0..MaxParts}

CandidateInputs == {NoContent} \cup {Candidate(ps) : ps \in PartLists}

SomeCandidates ==
  { NoContent, Candidate(<<TextPart(<<"t">>)>>),
    Candidate(<<InlinePart("image/png", "A")>>),
    Candidate(<<UntypedInlinePart("Z")>>) }

ChunkInputs ==
  {NoCandidates, Chunk(<<>>)}
    \cup {Chunk(<<c>>) : c \in CandidateInputs}
    \cup {Chunk(<<c, d>>) : c \in SomeCandidates, d \in SomeCandidates}

SomeChunks ==
  { NoCandidates, Chunk(<<Candidate(<<TextPart(<<"u">>)>>)>>),
    Chunk(<<Candidate(<<InlinePart("image/jpeg", "B")>>)>>) }

EnvelopeInputs ==
  {Envelope(TRUE, <<>>)}
    \cup {Envelope(FALSE, <<k>>) : k \in ChunkInputs}
    \cup {Envelope(TRUE, <<k, l>>) : k \in SomeChunks, l \in ChunkInputs}
    \cup {Envelope(TRUE, <<l, k>>) : k \in SomeChunks, l \in ChunkInputs}

InitResponse ==
  /\ lastGeneration = Null
  /\ referenceMetadata = Null
  /\ calls = [c \in Calls |-> IdleCall]
  /\ finished = <<>>
  /\ returned = Null
  /\ sv = IdleSave
  /\ rr = IdleResolve
  /\ rp \in {[IdleParse EXCEPT !.pc = "start", !.data = e] : e \in EnvelopeInputs}
  /\ mr = IdleMerge

\* processResponse(response.data)
ProcessResponse ==
  /\ rp.pc = "start"
  /\ rp' = [rp EXCEPT !.pc = "done", !.out = processResponse(rp.data)]
  /\ UNCHANGED <<generator, referenceMetadata, rr, mr>>

NextResponse == ProcessResponse

SpecResponse == InitResponse /\ [][NextResponse]_vars

(***************************************************************************)
(* The merge loop of generateMultiple on its own, over the results of up   *)
(* to MaxResults requests.                                                 *)
(***************************************************************************)
MaxResults == 3   \* results merged in one fan-out

Texts ==
  { <<>>, <<"a">>, <<"b">>, <<"a", "b">>, <<"a", "\n", "b">> }

ResultInputs ==
  {[images |-> <<DataUri("image/png", "A")>>, text |-> t] : t \in Texts}

ResultLists == UNION {[1..n -> ResultInputs] : n \in 1..MaxResults}

InitMerge ==
  /\ lastGeneration = Null
  /\ referenceMetadata = Null
  /\ calls = [c \in Calls |-> IdleCall]
  /\ finished = <<>>
  /\ returned = Null
  /\ sv = IdleSave
  /\ rr = IdleResolve
  /\ rp = IdleParse
  /\ mr \in {[IdleMerge EXCEPT !.pc = "start", !.results = rs] : rs \in ResultLists}

\* const results = await Promise.all(promises), then the merge
Merge ==
  /\ mr.pc = "start"
  /\ mr' = [mr EXCEPT !.pc = "done", !.out = MergeResults(mr.results)]
  /\ UNCHANGED <<generator, referenceMetadata, rr, rp>>

NextMerge == Merge

SpecMerge == InitMerge /\ [][NextMerge]_vars

(***************************************************************************)
(* Properties.                                                             *)
(***************************************************************************)
Indices(call) == 1..Len(call.subs)

\* A fanned-out call each of whose requests came back with exactly one image.
FannedOutOneEach(call) ==
  /\ call.pc = "resolved"
  /\ call.count > 1
  /\ \A i \in Indices(call) : Len(call.subs[i].res.images) = 1

\* C1: a fan-out of N requests that each succeed with one image returns
\* exactly N images, image i being the one request i returned, whatever the
\* order in which the requests completed.
C1_FanOutInRequestOrder ==
  \A c \in Calls :
    FannedOutOneEach(calls[c]) =>
      /\ Len(calls[c].ret.images) = calls[c].count
      /\ \A i \in Indices(calls[c]) :
           calls[c].ret.images[i] = calls[c].subs[i].res.images[1]

\* C1 witness: the second request completed first and the two images differ.
C1_Witness ==
  \E c \in Calls :
    /\ FannedOutOneEach(calls[c])
    /\ calls[c].order[1] = 2
    /\ calls[c].subs[1].res.images # calls[c].subs[2].res.images

\* C2: a fan-out with a failed request is rejected and returns no result,
\* whatever the other requests did and whenever they completed.
C2_AnyFailureRejects ==
  \A c \in Calls :
    (calls[c].count > 1 /\ \E i \in Indices(calls[c]) : calls[c].subs[i].pc = "err")
      => calls[c].pc = "rejected" /\ calls[c].ret = Null

\* C2 witness: one request had succeeded with an image before another failed.
C2_Witness ==
  \E c \in Calls :
    /\ calls[c].count > 1
    /\ calls[c].pc = "rejected"
    /\ Len(calls[c].order) > 1
    /\ calls[c].subs[calls[c].order[1]].pc = "ok"
    /\ calls[c].subs[calls[c].order[1]].res.images # <<>>
    /\ calls[c].subs[calls[c].order[2]].pc = "err"

\* The images a save has to persist: those the latest fulfilled generate returned.
LatestImages == IF returned = Null THEN <<>> ELSE returned.images

\* C3: the slot holds the result of the latest fulfilled generate and nothing
\* else; a save works on exactly those images, one file per image in image
\* order, and leaves the slot as it is, so that a save after a save does too.
C3_SaveUsesLatestGeneration ==
  /\ lastGeneration = Null <=> returned = Null
  /\ returned # Null =>
       /\ lastGeneration.images = returned.images
       /\ lastGeneration.prompt = returned.prompt
  /\ sv.pc # "idle" => sv.images = LatestImages
  /\ sv.pc = "done" =>
       /\ Len(sv.ret) = Len(LatestImages)
       /\ Len(sv.written) = Len(LatestImages)
       /\ \A k \in 1..Len(LatestImages) :
            /\ sv.written[k].data = DecodeImage(LatestImages[k])
            /\ sv.written[k].path = sv.ret[k]

\* C3 witness: two generates were fulfilled one after the other, and a save
\* has written the two images of the later one.
C3_Witness ==
  /\ sv.pc = "done"
  /\ Len(sv.ret) = 2
  /\ Len(finished) = 2
  /\ \A c \in {1, 2} : calls[c].pc = "resolved" /\ calls[c].during = {}

\* C4: of two overlapping generate calls that are both fulfilled, the one that
\* finishes last leaves its prompt and its images in the slot.
C4_LastFinisherWins ==
  \A c, d \in Calls :
    ( /\ c # d
      /\ calls[c].pc = "resolved" /\ calls[c].ret # Null
      /\ calls[d].pc = "resolved"
      /\ (d \in calls[c].during \/ c \in calls[d].during)
      /\ finished[Len(finished)] = c )
    => /\ lastGeneration.prompt = calls[c].prompt
       /\ lastGeneration.images = calls[c].ret.images

\* C4 witness: the call started first finishes last, after the other wrote the
\* slot with another prompt, and returns an image.
C4_Witness ==
  /\ calls[1].pc = "resolved" /\ calls[1].ret # Null
  /\ calls[2].pc = "resolved"
  /\ 1 \in calls[2].during
  /\ finished = <<2, 1>>
  /\ calls[1].prompt = "p1"
  /\ calls[1].ret.images # <<>>

\* The extension option of the save in progress, lower-cased, leading dot off.
RequestedExtension == StripLeadingDot(ToLowerCase(sv.requested))

\* The format save settles on: formatOptions.format when the caller gives one,
\* else the extension option; lower-cased, leading dot off.
TargetExtension ==
  StripLeadingDot(ToLowerCase(
    IF sv.formatOptions # Null /\ sv.formatOptions.format # <<>>
      THEN sv.formatOptions.format ELSE sv.requested))

RejectedUnsupported ==
  /\ sv.pc = "failed"
  /\ sv.error = "unsupported"
  /\ sv.written = <<>>
  /\ sv.savedPaths = <<>>
  /\ sv.ret = Null

\* C5 as claimed: a save whose extension option is outside the supported set
\* fails as unsupported and writes nothing, whatever the slot and the options.
C5_UnsupportedAlwaysFails ==
  (sv.pc # "idle" /\ RequestedExtension \notin supportedFormats)
    => RejectedUnsupported

\* C5 amended: a save on a slot with at least one image, into a directory that
\* is there or can be made, whose target format (formatOptions.format when
\* given, else the extension option; lower-cased, leading dot off) is outside
\* the supported set, fails as unsupported and writes nothing.
C5_UnsupportedFailsWithImages ==
  ( /\ sv.pc # "idle"
    /\ lastGeneration # Null /\ lastGeneration.images # <<>>
    /\ sv.directory # "denied"
    /\ TargetExtension \notin supportedFormats )
    => RejectedUnsupported

\* C5 witness: "bmp" asked for on a slot of two images, with a file name.
C5_Witness ==
  /\ RejectedUnsupported
  /\ sv.requested = <<"b", "m", "p">>
  /\ sv.filename # <<>>
  /\ Len(lastGeneration.images) = 2

\* The name the claim gives image k (1-based) of a save with a file name.
StemName(k, ext) ==
  IF Len(sv.images) > 1
    THEN sv.filename \o <<"_", ToString(k - 1), ".">> \o ext
    ELSE sv.filename \o <<".">> \o ext

NamedByStem(ext) ==
  /\ Len(sv.ret) = Len(sv.images)
  /\ Len(sv.written) = Len(sv.images)
  /\ \A k \in 1..Len(sv.images) :
       /\ sv.ret[k] = PathJoin(sv.directory, StemName(k, ext))
       /\ sv.written[k].path = sv.ret[k]
       /\ sv.written[k].data = DecodeImage(sv.images[k])

\* C6 as claimed: the files of a save with a file name carry the extension
\* option, lower-cased and without a leading dot.
C6_StemAndRequestedExtension ==
  (sv.pc = "done" /\ sv.filename # <<>> /\ sv.images # <<>>)
    => NamedByStem(RequestedExtension)

\* C6 amended: they carry the target format (formatOptions.format when given,
\* else the extension option; lower-cased, leading dot off), "jpeg" written
\* as "jpg": stem.ext for one image, stem_0.ext .. stem_(k-1).ext for k.
C6_StemAndTargetExtension ==
  (sv.pc = "done" /\ sv.filename # <<>> /\ sv.images # <<>>)
    => NamedByStem(IF TargetExtension = <<"j", "p", "e", "g">>
                     THEN <<"j", "p", "g">> ELSE TargetExtension)

\* C6 witness: two images saved under a file name, ".PNG" asked for.
C6_Witness ==
  /\ sv.pc = "done"
  /\ sv.filename # <<>>
  /\ Len(sv.images) = 2
  /\ sv.requested = <<".", "P", "N", "G">>
  /\ sv.formatOptions = Null

\* C7: a save on an empty slot, or on a slot of zero images, returns an empty
\* list, raises nothing and writes nothing, whatever its options.
C7_NothingToSave ==
  (sv.pc # "idle" /\ (lastGeneration = Null \/ lastGeneration.images = <<>>))
    => /\ sv.pc = "done"
       /\ sv.ret = <<>>
       /\ sv.error = ""
       /\ sv.written = <<>>
       /\ ~sv.ensured

\* C7 witness: the slot holds a generation of zero images and the save asked
\* for "bmp" with an explicit profile.
C7_Witness ==
  /\ sv.pc = "done"
  /\ lastGeneration # Null /\ lastGeneration.images = <<>>
  /\ sv.requested = <<"b", "m", "p">>
  /\ sv.formatOptions # Null

\* The jpeg/jpg spelling sharp and save use for the same format.
SameFormat(a, b) == FileExtension(a) = FileExtension(b)

\* The profile the claim has save apply: the explicit one, else the inferred
\* one when its format is the target's, else none (the format's defaults).
ProfileByPriority ==
  IF sv.formatOptions # Null THEN sv.formatOptions
  ELSE IF referenceMetadata # Null
            /\ SameFormat(referenceMetadata.format, sv.sharpFormat)
    THEN referenceMetadata
  ELSE Null

\* C8 as claimed: every image is encoded with the parameters of the explicit
\* profile, else of the inferred profile of the same format, else the defaults.
C8_ProfilePriority ==
  \A k \in 1..Len(sv.written) :
    sv.written[k].options = SharpFormatOptions(sv.sharpFormat, ProfileByPriority)

\* C9: when encoding or writing image j fails the save fails with that error
\* and returns nothing; images 1..j-1 are on disk, each under its own path,
\* and nothing from image j on is.
C9_FailureAbortsBatch ==
  (sv.pc = "failed" /\ sv.error = "codec")
    => /\ sv.ret = Null
       /\ sv.index \in 1..Len(sv.images)
       /\ Len(sv.written) = sv.index - 1
       /\ Len(sv.savedPaths) = sv.index - 1
       /\ \A k \in 1..(sv.index - 1) :
            /\ sv.written[k].data = DecodeImage(sv.images[k])
            /\ sv.written[k].path = sv.savedPaths[k]

\* C9 witness: the second of two images failed after the first was written.
C9_Witness ==
  /\ sv.pc = "failed" /\ sv.error = "codec"
  /\ sv.index = 2
  /\ Len(sv.images) = 2
  /\ Len(sv.written) = 1

\* A call on a readable file that sharp cannot decode, which overlapped no
\* other call and is over, with nothing in flight.
InferenceFailedCall(c) ==
  /\ calls[c].pc \in {"resolved", "rejected"}
  /\ calls[c].during = {}
  /\ \A d \in Calls : c \notin calls[d].during
  /\ calls[c].ref.kind = "file"
  /\ Files[calls[c].ref.path].readable
  /\ ~Files[calls[c].ref.path].decodable
  /\ \A d \in Calls : ~InFlight(calls[d])

\* C10 as claimed: such a call still posts every request, and once it is over
\* the last inferred profile is unset, whatever calls came before.
C10_FailedInferenceUnsetsProfile ==
  \A c \in Calls :
    InferenceFailedCall(c) =>
      /\ \A i \in Indices(calls[c]) : calls[c].subs[i].posted
      /\ referenceMetadata = Null

\* The input of the resolution under way is a string with this beginning.
InputStartsWith(prefix) ==
  rr.input.type = "string" /\ StartsWith(rr.input.str, prefix)

\* C11: resolving a Buffer, or a string that starts with data:image/ (well
\* formed or not), asks nothing of the network and reads no file; resolving a
\* string that starts with neither http:// nor https:// asks nothing of the
\* network.
C11_NoFetchNoReadWhereNotApplicable ==
  /\ (rr.input.type = "buffer" \/ InputStartsWith(<<"data:", "image/">>))
       => rr.fetches = 0 /\ rr.reads = 0
  /\ ( /\ rr.input.type = "string"
       /\ ~InputStartsWith(<<"http://">>)
       /\ ~InputStartsWith(<<"https://">>) )
       => rr.fetches = 0

\* C11 witness: a data URI that does not match the pattern has been turned
\* down.
C11_Witness ==
  /\ InputStartsWith(<<"data:", "image/">>)
  /\ rr.pc = "failed"
  /\ rr.error = "format"

\* The allow-list of the claim.
AllowedMimeTypes ==
  { <<"image/", "png">>, <<"image/", "jpeg">>, <<"image/", "gif">>,
    <<"image/", "webp">> }

\* C12 as claimed: a reference that resolves carries a MIME type of the
\* allow-list, whatever kind of source it came from.
C12_MimeTypeInAllowList ==
  rr.pc = "resolved" => rr.mimeType \in AllowedMimeTypes

\* The sequences of a sequence, one after the other.
RECURSIVE Flatten(_)
Flatten(ss) == IF ss = <<>> THEN <<>> ELSE Head(ss) \o Flatten(Tail(ss))

\* The parts of an envelope in the order they appear: by chunk, then by
\* candidate, then by part.
CandidatesParts(cs) ==
  Flatten([c \in 1..Len(cs) |-> IF cs[c].hasParts THEN cs[c].parts ELSE <<>>])

AllParts(data) ==
  Flatten([k \in 1..Len(data.chunks) |->
             IF data.chunks[k].hasCandidates
               THEN CandidatesParts(data.chunks[k].candidates) ELSE <<>>])

\* A part with a recognizable image: inlineData of an image type.
HasImage(p) == p.inlineData.hasMimeType /\ IsImageMime(p.inlineData.mimeType)

ImagesInOrder(ps) ==
  LET with == SelectSeq(ps, HasImage)
  IN  [k \in 1..Len(with) |->
         DataUri(with[k].inlineData.mimeType, with[k].inlineData.data)]

TextInOrder(ps) == Flatten([k \in 1..Len(ps) |-> ps[k].text])

\* C13 as claimed: processResponse raises nothing, whatever parts the envelope
\* holds, and returns the images of the parts that have one, and the texts
\* joined, in the order the parts appear; an envelope without candidates or
\* parts gives no image and the empty text.
C13_PartsInOrderNoError ==
  rp.pc = "done" =>
    /\ ~rp.out.threw
    /\ rp.out.images = ImagesInOrder(AllParts(rp.data))
    /\ rp.out.text = TextInOrder(AllParts(rp.data))

\* The same for the envelopes in which every inlineData has a mimeType.
C13_PartsInOrderWhenTyped ==
  (rp.pc = "done" /\ \A k \in 1..Len(AllParts(rp.data)) :
                        ~PartThrows(AllParts(rp.data)[k]))
    => /\ ~rp.out.threw
       /\ rp.out.images = ImagesInOrder(AllParts(rp.data))
       /\ rp.out.text = TextInOrder(AllParts(rp.data))

\* The readFileSync calls made for a call's sub-requests, and the assignments
\* to this.referenceMetadata made for them.
RECURSIVE ReadsOf(_)
ReadsOf(subs) ==
  IF subs = <<>> THEN 0 ELSE Head(subs).reads + ReadsOf(Tail(subs))

RECURSIVE WritesOf(_)
WritesOf(subs) ==
  IF subs = <<>> THEN 0 ELSE Head(subs).writes + WritesOf(Tail(subs))

\* C14 as claimed: within one generate call with a file-path reference and a
\* requested count N >= 1 the reference is resolved exactly once, not once
\* per sub-request, and the last-inferred-profile slot is written at most once.
C14_ReferenceResolvedOnce ==
  \A c \in Calls :
    (calls[c].ref.kind = "file" /\ calls[c].subs # <<>>) =>
      /\ ReadsOf(calls[c].subs) = 1
      /\ WritesOf(calls[c].subs) <= 1

\* What holds instead: one resolution per sub-request, N in all, and up to N
\* assignments of the profile.
C14_ResolvedPerRequest ==
  \A c \in Calls :
    (calls[c].ref.kind = "file" /\ calls[c].subs # <<>>) =>
      /\ ReadsOf(calls[c].subs) = calls[c].count
      /\ WritesOf(calls[c].subs) <= calls[c].count

\* The reference of the call resolves: there is none, or its file can be read.
ResolutionSucceeds(call) ==
  call.ref.kind = "none" \/ Files[call.ref.path].readable

\* axios.post has resolved or rejected for sub-request i of the call.
Completed(call, i) ==
  call.subs[i].sent # <<>> /\ call.subs[i].pc \in {"ok", "err"}

\* One sub-request per requested image; none is posted more than once, each
\* with candidate count 1 and the call's prompt and reference; and once the
\* call is over, with its reference resolved, every one of them was posted.
OneRequestPerImage(call) ==
  /\ Len(call.subs) = call.count
  /\ \A i \in 1..Len(call.subs) :
       /\ Len(call.subs[i].sent) <= 1
       /\ \A k \in 1..Len(call.subs[i].sent) :
            /\ call.subs[i].sent[k] = RequestBody(call.prompt, call.ref)
            /\ call.subs[i].sent[k].candidateCount = 1
  /\ (Over(call) /\ ResolutionSucceeds(call)) =>
       \A i \in 1..Len(call.subs) : Len(call.subs[i].sent) = 1

\* Every request of the call has been posted before any of them completes.
AllInFlightFirst(call) ==
  (\E i \in 1..Len(call.subs) : Completed(call, i)) =>
    \A i \in 1..Len(call.subs) : call.subs[i].sent # <<>>

\* C15 as claimed: a generate call issues one remote request when N is 1 or
\* absent and N when N > 1 (reference resolution succeeding), each with
\* candidate count 1 and the same prompt and reference, no index attempted
\* twice, and all N are in flight before any completion is awaited.
C15_AllRequestsInFlightFirst ==
  \A c \in Calls :
    calls[c].subs # <<>> =>
      OneRequestPerImage(calls[c]) /\ AllInFlightFirst(calls[c])

\* What holds of the count, the bodies and the single attempt.
C15_OneRequestPerImage ==
  \A c \in Calls : calls[c].subs # <<>> => OneRequestPerImage(calls[c])

\* What holds of the order when there is no reference to resolve.
C15_InFlightFirstWithoutReference ==
  \A c \in Calls :
    (calls[c].subs # <<>> /\ calls[c].ref.kind = "none") =>
      AllInFlightFirst(calls[c])

\* The texts of the results with index in K, in index order from i on, each
\* followed by a newline.
RECURSIVE LinesFrom(_, _, _)
LinesFrom(results, K, i) ==
  IF i > Len(results) THEN <<>>
  ELSE (IF i \in K THEN results[i].text \o <<"\n">> ELSE <<>>)
         \o LinesFrom(results, K, i + 1)

Lines(results, K) == LinesFrom(results, K, 1)

\* The images of all the results, in index order.
RECURSIVE ImagesFrom(_, _)
ImagesFrom(results, i) ==
  IF i > Len(results) THEN <<>>
  ELSE results[i].images \o ImagesFrom(results, i + 1)

\* The indices at which a non-empty text value occurs for the first time.
FirstOccurrences(results) ==
  {i \in 1..Len(results) :
     /\ results[i].text # <<>>
     /\ \A j \in 1..(i - 1) : results[j].text # results[i].text}

\* K holds the indices whose text is not empty and not contained in the
\* lines kept from the indices before.
KeptBySubstring(results, K) ==
  \A i \in 1..Len(results) :
    i \in K <=> /\ results[i].text # <<>>
                /\ ~Includes(Lines(results, K \cap (1..(i - 1))), results[i].text)

\* C16 as claimed: the merged text holds every distinct non-empty text value
\* of the sub-requests once, in request-index order of first occurrence, one
\* per line; only a value equal to one already merged is left out.
C16_DistinctTextsOnce ==
  mr.pc = "done" =>
    mr.out.text = Lines(mr.results, FirstOccurrences(mr.results))

\* C16 amended: the merged text holds, in request-index order and each
\* followed by a newline, the non-empty text values that are not contained
\* as a substring in the text merged before them; the images of all results
\* are merged in index order whatever their text.
C16_TextsNotContainedBefore ==
  mr.pc = "done" =>
    /\ \E K \in SUBSET (1..Len(mr.results)) :
         /\ KeptBySubstring(mr.results, K)
         /\ mr.out.text = Lines(mr.results, K)
    /\ mr.out.images = ImagesFrom(mr.results, 1)

\* "ab" then "a": the second value is new but contained in the first.
C16_Witness ==
  /\ mr.pc = "done"
  /\ Len(mr.results) = 2
  /\ mr.results[1].text = <<"a", "b">>
  /\ mr.results[2].text = <<"a">>
  /\ mr.out.text = <<"a", "b", "\n">>
  /\ Len(mr.out.images) = 2

\* The call overlapped no other call: none was pending when it started and
\* none started while it was pending.
Alone(c) ==
  /\ calls[c].during = {}
  /\ \A d \in Calls : c \notin calls[d].during

\* The call that settled last.
LastFinished == finished[Len(finished)]

\* C17: a generate call that fails, whether its reference cannot be read, its
\* single request fails or a request of its fan-out fails, leaves the slot as
\* the call found it, and a save that follows writes the images of the last
\* fulfilled generate, one file per image.
C17_FailedGenerateKeepsSlot ==
  /\ \A c \in Calls :
       ( /\ calls[c].pc = "rejected" /\ calls[c].subs # <<>>
         /\ Alone(c)
         /\ LastFinished = c )
       => lastGeneration = calls[c].before
  /\ (finished # <<>> /\ calls[LastFinished].pc = "rejected" /\ sv.pc = "done") =>
       /\ sv.images = LatestImages
       /\ Len(sv.written) = Len(LatestImages)
       /\ \A k \in 1..Len(LatestImages) :
            sv.written[k].data = DecodeImage(LatestImages[k])

\* C17 witness: the first call was fulfilled, the second failed, and the save
\* that followed has written the image of the first.
C17_Witness ==
  /\ finished = <<1, 2>>
  /\ calls[1].pc = "resolved"
  /\ calls[2].pc = "rejected"
  /\ Alone(2)
  /\ sv.pc = "done"
  /\ Len(sv.written) = 1
  /\ lastGeneration # Null /\ lastGeneration.prompt = "p1"

\* Call c is fulfilled in this step: every one of its requests has succeeded.
Fulfils(c) ==
  /\ calls[c].pc = "pending"
  /\ calls'[c].pc = "resolved"
  /\ \A i \in 1..Len(calls'[c].subs) : calls'[c].subs[i].pc = "ok"

\* The slot holds the prompt of call c and the images of all its requests,
\* which are the images the call returns.
HoldsOutcomeOf(slot, call) ==
  /\ slot # Null
  /\ slot.prompt = call.prompt
  /\ slot.images = call.ret.images
  /\ slot.images = ImagesFrom(PromiseAllResults(call.subs, call.order), 1)

\* C18: the slot starts empty and changes only in the step in which a
\* generate call is fulfilled, and then to the prompt of that call together
\* with the whole image list of that same call; so in every reachable state
\* it is empty or holds the prompt and the images of one completed call.
C18_SlotFromOneCompletedCall ==
  [][ /\ lastGeneration' # lastGeneration =>
           \E c \in Calls : Fulfils(c) /\ HoldsOutcomeOf(lastGeneration', calls'[c])
      /\ \A c \in Calls :
           Fulfils(c) => HoldsOutcomeOf(lastGeneration', calls'[c]) ]_vars

\* C18 witness: a fan-out of two started while another call with another
\* prompt was pending, finished after it, and left its prompt and its two
\* images in the slot.
C18_Witness ==
  /\ finished = <<1, 2>>
  /\ calls[1].pc = "resolved"
  /\ calls[2].pc = "resolved" /\ calls[2].count = 2
  /\ 1 \in calls[2].during
  /\ calls[2].prompt = "p2"
  /\ HoldsOutcomeOf(lastGeneration, calls[2])
  /\ Len(lastGeneration.images) = 2
  /\ sv.pc = "idle"


====
